---- MODULE Spec2Model ----
(***************************************************************************)
(* Model of src/src/services/input_detector.py (class InputDetector): the  *)
(* low-level keyboard hook callback, the passthrough flag, and the         *)
(* start()/stop() life cycle of the hook thread.                           *)
(*                                                                         *)
(* The specifications share the variables:                                 *)
(*   Spec          the hook callback _hook_proc fed with key events while  *)
(*                 a capture session is up, interleaved with               *)
(*                 set_passthrough() and Num Lock changes;                 *)
(*   LifeSpec      start(), stop() and the steps of the hook thread _run;  *)
(*   FairLifeSpec  LifeSpec plus the passage of time inside join(timeout); *)
(*   TickSpec      the 50 ms timer of a session: _on_tick, _reinstall_hook *)
(*                 and the OS evicting the hook;                           *)
(*   ChanSpec      the signals of _NumpadSignal on their way to the slots  *)
(*                 connected in app.py;                                    *)
(*   AppSpec       SoftDeckApp: __init__, apply_input_mode, cleanup.       *)
(***************************************************************************)
EXTENDS Integers, Sequences, FiniteSets, TLC

\* ---------------------------------------------------------------- constants
LLKHF_INJECTED == 16
LLKHF_EXTENDED == 1
WM_KEYDOWN == 256
WM_KEYUP == 257
WM_SYSKEYDOWN == 260
WM_SYSKEYUP == 261
VK_NUMLOCK == 144
VK_INSERT == 45
VK_HOME == 36
VK_UP == 38
VK_PRIOR == 33
VK_LEFT == 37
VK_CLEAR == 12
VK_RIGHT == 39
VK_END == 35
VK_DOWN == 40
VK_NEXT == 34
\* join(timeout=2) in stop(), in seconds
JoinTimeout == 2
\* _REHOOK_TICKS
REHOOK_TICKS == 20
_STOP_VK == 120
_CANCEL_VK == 27
MOD_ALT == 1
MOD_CONTROL == 2
MOD_SHIFT == 4
MOD_WIN == 8
MOD_NOREPEAT == 16384
HistoryCap == 50

\* ------------------------------------------------------------------ bounds
\* number of hook threads start() may create in one behaviour
MaxThreads == 2
\* signal emissions that may wait in the GUI thread's event queue, and
\* the emissions ChanSpec follows from the hook to the slots
MaxQueue == 2
\* modal dialogs open at the same time
MaxDialogs == 2
\* folders besides the root folder
MaxFolders == 3
\* steps one recording holds
MaxSteps == 2
\* calls queued for the GUI thread
MaxShots == 2
\* parts of a hotkey string
MaxParts == 2
\* entries of the folder history
MaxHistory == 3

Threads == 1..MaxThreads

\* Python's None for a position, a thread or a handle
None == <<>>
NoThread == 0
NoHandle == 0

VARIABLES
  \* InputDetector fields
  passthrough,          \* self._passthrough
  last_injected,        \* self._last_injected
  last_numlock_state,   \* self._last_numlock_state: {} for None, or {b}
  running,              \* self._running
  thread,               \* self._thread: NoThread or a thread id
  hook,                 \* self._hook: NoHandle or a hook handle
  timer_id,             \* self._timer_id
  tick_count,           \* self._tick_count
  \* operating system
  osNumLock,            \* GetKeyState(VK_NUMLOCK) & 1
  numlockKeyHeld,       \* the Num Lock key is physically down
  osHooks,              \* installed WH_KEYBOARD_LL registrations (handles)
  osTimers,             \* live timers, <<owner thread, id>>
  quitPosted,           \* per thread: WM_QUIT waits in its message queue
  tpc,                  \* per thread: position inside _run
  \* the GUI thread calling start()/stop()
  mpc,                  \* "idle", or "joining" inside stop()'s join
  joinElapsed,          \* seconds spent in the current/last join
  \* observation of calls
  lastCall,             \* the last _hook_proc call: arguments, reads, result
  startSeq,             \* flips at every start() call
  stopSeq,              \* flips at every stop() call
  lastStartPre,         \* was the service running when start() was called
  startOutcome,         \* what the last start() gave its caller
  stopOutcome,          \* what the last stop() gave its caller
  installFailed,        \* per thread: _run logged "Failed to install"
  rehookLog,            \* outcomes of the last two _reinstall_hook calls
  \* Qt: queued signal deliveries to the GUI thread, and the slots
  queue,                \* emissions posted to the GUI thread, oldest first
  lastHandled,          \* the last slot call: <<slot, args...>>
  published,            \* history: every emission posted so far, in order
  delivered,            \* history: every emission a slot was called for
  \* SoftDeckApp
  input_mode,           \* settings.input_mode
  appPc,                \* "none", "up" after __init__, "closed" after cleanup
  applyOutcome,         \* what the last apply_input_mode() gave its caller
  \* the user interface
  dialogs,              \* the open modal dialogs, the newest last
  windowVisible,        \* the main window is shown
  \* ConfigManager
  tree,                 \* the folder tree: folder id -> ids of its children
  lastMove,             \* the last move_folder call and what it returned
  \* MacroRecorder and its MacroRecordingDialog
  rec_running,          \* MacroRecorder._running
  events,               \* MacroRecorder._events
  kb_listener,          \* MacroRecorder._kb_listener is a running listener
  shots,                \* calls QTimer.singleShot(0, ...) queued for the GUI thread
  kbPc,                 \* the step a listener callback is about to append
  recLog,               \* recording_stopped / recording_cancelled emitted since start()
  lastEnd,              \* what the last stop() or cancel() since start() did
  lastKey,              \* the last key event a listener callback got
  dlgResult,            \* the recording dialog: open, accepted or rejected
  event_count,          \* MacroRecordingDialog._event_count
  \* GlobalHotkeyService
  hk_hotkey,            \* GlobalHotkeyService._hotkey
  hk_registered,        \* GlobalHotkeyService._registered
  hk_reg,               \* the modifiers and vk RegisterHotKey holds
  lastParse,            \* what the last _parse_hotkey call returned
  \* MainWindow
  current_folder_id,    \* MainWindow._current_folder_id
  folder_history,       \* MainWindow._folder_history
  navigating_back,      \* MainWindow._navigating_back
  lastNav               \* the last navigation call and the state it found

tickVars == <<tick_count, rehookLog>>
modeVars == <<input_mode, appPc, applyOutcome>>
folderVars == <<tree, lastMove>>
macroVars == <<rec_running, events, kb_listener, shots, kbPc, recLog, lastEnd,
               lastKey, dlgResult, event_count>>
hotkeyVars == <<hk_hotkey, hk_registered, hk_reg, lastParse>>
navVars == <<current_folder_id, folder_history, navigating_back, lastNav>>
uiVars == <<folderVars, macroVars, hotkeyVars, navVars>>
appVars == <<modeVars, dialogs, windowVisible, uiVars>>
qtVars == <<queue, published, lastHandled, delivered>>
lifeVars == <<running, thread, hook, timer_id, osHooks, osTimers, quitPosted,
              tpc, mpc, joinElapsed, startSeq, stopSeq, lastStartPre,
              startOutcome, stopOutcome, installFailed>>
vars == <<passthrough, last_injected, last_numlock_state, running, thread,
          hook, timer_id, osNumLock, numlockKeyHeld, osHooks, osTimers,
          quitPosted, tpc, mpc, joinElapsed, lastCall,
          startSeq, stopSeq, lastStartPre, startOutcome, stopOutcome,
          installFailed, tick_count, rehookLog, queue, lastHandled,
          published, delivered,
          input_mode, appPc, applyOutcome, dialogs, windowVisible, uiVars>>

\* ------------------------------------------------------------ classifier
NavCodes == {VK_HOME, VK_UP, VK_PRIOR, VK_LEFT, VK_CLEAR, VK_RIGHT, VK_END,
             VK_DOWN, VK_NEXT}

NUMPAD_MAP_flipped(vk) ==
  CASE vk = VK_HOME  -> <<2, 0>>
    [] vk = VK_UP    -> <<2, 1>>
    [] vk = VK_PRIOR -> <<2, 2>>
    [] vk = VK_LEFT  -> <<1, 0>>
    [] vk = VK_CLEAR -> <<1, 1>>
    [] vk = VK_RIGHT -> <<1, 2>>
    [] vk = VK_END   -> <<0, 0>>
    [] vk = VK_DOWN  -> <<0, 1>>
    [] vk = VK_NEXT  -> <<0, 2>>
    [] OTHER         -> None

\* _NUMPAD_MAP.get(vk)
NUMPAD_MAP(vk) ==
  CASE vk = VK_HOME  -> <<0, 0>>
    [] vk = VK_UP    -> <<0, 1>>
    [] vk = VK_PRIOR -> <<0, 2>>
    [] vk = VK_LEFT  -> <<1, 0>>
    [] vk = VK_CLEAR -> <<1, 1>>
    [] vk = VK_RIGHT -> <<1, 2>>
    [] vk = VK_END   -> <<2, 0>>
    [] vk = VK_DOWN  -> <<2, 1>>
    [] vk = VK_NEXT  -> <<2, 2>>
    [] OTHER         -> None

\* flags & bit, for a one-bit mask
HasFlag(flags, bit) == (flags \div bit) % 2 = 1

is_numpad_zero_noinj(kb, numlock) ==
  IF HasFlag(kb.flags, LLKHF_EXTENDED) THEN FALSE
  ELSE IF numlock THEN FALSE
  ELSE kb.vkCode = VK_INSERT

\* InputDetector._is_numpad_zero, numlock = GetKeyState(VK_NUMLOCK) & 1
is_numpad_zero(kb, numlock) ==
  IF HasFlag(kb.flags, LLKHF_INJECTED) THEN FALSE
  ELSE IF HasFlag(kb.flags, LLKHF_EXTENDED) THEN FALSE
  ELSE IF numlock THEN FALSE
  ELSE kb.vkCode = VK_INSERT

is_numpad_nav_key_noext(kb, numlock) ==
  IF HasFlag(kb.flags, LLKHF_INJECTED) THEN None
  ELSE IF numlock THEN None
  ELSE NUMPAD_MAP(kb.vkCode)

is_numpad_nav_key_nonumlock(kb, numlock) ==
  IF HasFlag(kb.flags, LLKHF_INJECTED) THEN None
  ELSE IF HasFlag(kb.flags, LLKHF_EXTENDED) THEN None
  ELSE NUMPAD_MAP(kb.vkCode)

\* InputDetector._is_numpad_nav_key
is_numpad_nav_key(kb, numlock) ==
  IF HasFlag(kb.flags, LLKHF_INJECTED) THEN None
  ELSE IF HasFlag(kb.flags, LLKHF_EXTENDED) THEN None
  ELSE IF numlock THEN None
  ELSE NUMPAD_MAP(kb.vkCode)

\* ------------------------------------------------------------- _hook_proc
IsDown(wParam) == wParam \in {WM_KEYDOWN, WM_SYSKEYDOWN}
IsUp(wParam) == wParam \in {WM_KEYUP, WM_SYSKEYUP}

\* the three signals of _NumpadSignal, as emitted values
SigPressed(pos) == <<"pressed", pos[1], pos[2]>>
SigBack == <<"back_pressed">>
SigNumLock(b) == <<"numlock_changed", b>>

\* the value published for a Num Lock key-down, from the raw state read
will_be_on_raw(raw) == raw

\* line 190: will_be_on = not bool(GetKeyState(VK_NUMLOCK) & 1)
will_be_on(raw) == ~raw

key_up_branch_nopt(kb, numlock, pt) ==
  IF is_numpad_nav_key(kb, numlock) # None THEN "suppress"
  ELSE IF is_numpad_zero(kb, numlock) THEN "suppress"
  ELSE "call_next"

\* lines 205-211: the key-up branch of _hook_proc
key_up_branch(kb, numlock, pt) ==
  IF ~pt
  THEN IF is_numpad_nav_key(kb, numlock) # None THEN "suppress"
       ELSE IF is_numpad_zero(kb, numlock) THEN "suppress"
       ELSE "call_next"
  ELSE "call_next"

hook_proc_emit_first(nCode, wParam, kb, numlock, pt, inj, nls) ==
  LET isNumLock == kb.vkCode = VK_NUMLOCK
      nlSig == IF isNumLock THEN <<SigNumLock(will_be_on(numlock))>> ELSE <<>>
      nls1  == IF isNumLock THEN {will_be_on(numlock)} ELSE nls
      pos   == is_numpad_nav_key(kb, numlock)
      ret1  == IF pt THEN "call_next" ELSE "suppress"
  IN
  IF nCode >= 0 /\ IsDown(wParam) THEN
       LET inj1 == HasFlag(kb.flags, LLKHF_INJECTED) IN
       IF pos # None THEN
            [ret |-> ret1, emits |-> nlSig \o <<SigPressed(pos)>>,
             last_injected |-> inj1, last_numlock_state |-> nls1]
       ELSE IF is_numpad_zero(kb, numlock) THEN
            [ret |-> ret1, emits |-> nlSig \o <<SigBack>>,
             last_injected |-> inj1, last_numlock_state |-> nls1]
       ELSE [ret |-> "call_next", emits |-> nlSig,
             last_injected |-> inj1, last_numlock_state |-> nls1]
  ELSE IF nCode >= 0 /\ IsUp(wParam) THEN
       [ret |-> key_up_branch(kb, numlock, pt), emits |-> <<>>,
        last_injected |-> inj, last_numlock_state |-> nls]
  ELSE [ret |-> "call_next", emits |-> <<>>,
        last_injected |-> inj, last_numlock_state |-> nls]

\* _hook_proc as a function of its arguments and of what it reads:
\* numlock = GetKeyState(VK_NUMLOCK) & 1, pt = self._passthrough,
\* inj, nls = self._last_injected, self._last_numlock_state before the call.
\* ret is "suppress" (return 1) or "call_next" (return CallNextHookEx(...)).
hook_proc(nCode, wParam, kb, numlock, pt, inj, nls) ==
  LET isNumLock == kb.vkCode = VK_NUMLOCK
      nlSig == IF isNumLock THEN <<SigNumLock(will_be_on(numlock))>> ELSE <<>>
      nls1  == IF isNumLock THEN {will_be_on(numlock)} ELSE nls
      pos   == is_numpad_nav_key(kb, numlock)
  IN
  IF nCode >= 0 /\ IsDown(wParam) THEN
       LET inj1 == HasFlag(kb.flags, LLKHF_INJECTED) IN
       IF ~pt /\ pos # None THEN
            [ret |-> "suppress", emits |-> nlSig \o <<SigPressed(pos)>>,
             last_injected |-> inj1, last_numlock_state |-> nls1]
       ELSE IF ~pt /\ is_numpad_zero(kb, numlock) THEN
            [ret |-> "suppress", emits |-> nlSig \o <<SigBack>>,
             last_injected |-> inj1, last_numlock_state |-> nls1]
       ELSE [ret |-> "call_next", emits |-> nlSig,
             last_injected |-> inj1, last_numlock_state |-> nls1]
  ELSE IF nCode >= 0 /\ IsUp(wParam) THEN
       [ret |-> key_up_branch(kb, numlock, pt), emits |-> <<>>,
        last_injected |-> inj, last_numlock_state |-> nls]
  ELSE [ret |-> "call_next", emits |-> <<>>,
        last_injected |-> inj, last_numlock_state |-> nls]

\* ------------------------------------------------------------- key events
\* the codes the claims are about and one key outside every table (65, "A")
VkCodes == NavCodes \cup {VK_INSERT, VK_NUMLOCK, 65}
FlagValues == {0, LLKHF_EXTENDED, LLKHF_INJECTED,
               LLKHF_INJECTED + LLKHF_EXTENDED}

\* what the OS hands to the callback: every table code and flag combination
\* as plain key-down and key-up, the Alt variants (WM_SYSKEY*) and a negative
\* nCode for representative keys
KeyEvents ==
  [nCode : {0}, wParam : {WM_KEYDOWN, WM_KEYUP}, vkCode : VkCodes,
   flags : FlagValues]
  \cup [nCode : {0}, wParam : {WM_SYSKEYDOWN, WM_SYSKEYUP},
        vkCode : {VK_UP, VK_INSERT, VK_NUMLOCK}, flags : {0}]
  \cup [nCode : {-1}, wParam : {WM_KEYDOWN, WM_KEYUP},
        vkCode : {VK_UP, VK_NUMLOCK}, flags : {0}]

KeyOf(ev) == <<ev.vkCode, ev.flags>>

NoCall == [nCode |-> 0, wParam |-> 0, vkCode |-> 0, flags |-> 0,
           numlock |-> FALSE, passthrough |-> FALSE, ret |-> "none",
           emits |-> <<>>, afterSuppressedDown |-> FALSE]
\* afterSuppressedDown: the call is a key-up with nCode >= 0 and the call
\* before it was the key-down of the same key (same code and flags), which
\* the hook suppressed

\* a hook callback runs on a hook thread that pumps messages while a
\* registration of this service is installed
HookLive == osHooks # {} /\ \E t \in Threads : tpc[t] = "getmsg"

\* One low-level keyboard event: the OS calls _hook_proc, then (the hook
\* never claims Num Lock) applies the key to its own state: a first
\* Num Lock key-down flips the toggle, auto-repeat does not.
HookProc(ev) ==
  LET kb == [vkCode |-> ev.vkCode, flags |-> ev.flags]
      r  == hook_proc(ev.nCode, ev.wParam, kb, osNumLock, passthrough,
                      last_injected, last_numlock_state)
      forwarded == r.ret = "call_next"
      isNL == ev.vkCode = VK_NUMLOCK /\ forwarded
  IN
  /\ HookLive
  /\ last_injected' = r.last_injected
  /\ last_numlock_state' = r.last_numlock_state
  /\ lastCall' = [nCode |-> ev.nCode, wParam |-> ev.wParam,
                  vkCode |-> ev.vkCode, flags |-> ev.flags,
                  numlock |-> osNumLock, passthrough |-> passthrough,
                  ret |-> r.ret, emits |-> r.emits,
                  afterSuppressedDown |->
                     /\ ev.nCode >= 0
                     /\ IsUp(ev.wParam)
                     /\ IsDown(lastCall.wParam)
                     /\ lastCall.ret = "suppress"
                     /\ KeyOf(lastCall) = KeyOf(ev)]
  /\ osNumLock' = IF isNL /\ IsDown(ev.wParam) /\ ~numlockKeyHeld
                  THEN ~osNumLock ELSE osNumLock
  /\ numlockKeyHeld' = IF isNL /\ IsDown(ev.wParam) THEN TRUE
                       ELSE IF isNL /\ IsUp(ev.wParam) THEN FALSE
                       ELSE numlockKeyHeld
  /\ UNCHANGED <<passthrough>>
  /\ UNCHANGED <<lifeVars, tickVars, lastHandled, delivered, appVars>>

\* Spec looks at the callback alone: what it emits is in lastCall.emits and
\* the GUI thread's queue is left out (ChanSpec follows the emissions)
KeyDown ==
  \E ev \in KeyEvents : IsDown(ev.wParam) /\ HookProc(ev)
                       /\ UNCHANGED <<queue, published>>
KeyUp ==
  \E ev \in KeyEvents : IsUp(ev.wParam) /\ HookProc(ev)
                       /\ UNCHANGED <<queue, published>>

\* InputDetector.set_passthrough, called on the GUI thread
set_passthrough(value) ==
  /\ mpc = "idle"
  /\ passthrough' = value
  /\ UNCHANGED <<last_injected, last_numlock_state, osNumLock,
                 numlockKeyHeld, lastCall>>
  /\ UNCHANGED <<lifeVars, tickVars, qtVars, windowVisible>>

SetPassthrough ==
  \E value \in BOOLEAN :
     set_passthrough(value) /\ UNCHANGED <<modeVars, dialogs, uiVars>>

\* Num Lock changes without the callback seeing the key (the hook was
\* evicted or the event was lost): the case _on_tick's poll exists for
NumLockMissed ==
  /\ osNumLock' = ~osNumLock
  /\ UNCHANGED <<passthrough, last_injected, last_numlock_state,
                 numlockKeyHeld, lastCall>>
  /\ UNCHANGED <<lifeVars, tickVars, qtVars, appVars>>

\* ------------------------------------------ the folder tree of the config
\* Folder ids: 0 stands for "root", 1..MaxFolders for the ids add_folder
\* makes ("folder_xxxxxxxx"); an id of these that no folder of the tree has
\* is an id that does not exist.
RootId == 0
NoFolder == -1
FolderIds == 0..MaxFolders

\* no move_folder call yet
NoMove == [seq |-> 0, folder_id |-> NoFolder, new_parent_id |-> NoFolder,
           result |-> FALSE]

\* the parts of the application the detector does not touch, at rest: a
\* config with the root folder alone
\* no navigation call yet
NoNav == [op |-> "none", folder_id |-> NoFolder, cur |-> NoFolder,
          hist |-> <<>>]

MacroIdle ==
  /\ rec_running = FALSE
  /\ events = <<>>
  /\ kb_listener = FALSE
  /\ shots = <<>>
  /\ kbPc = [type |-> "none", key |-> "", vk |-> 0]
  /\ recLog = <<>>
  /\ lastEnd = "none"
  /\ lastKey = [type |-> "none", vk |-> 0, running |-> FALSE]
  /\ dlgResult = "none"
  /\ event_count = 0

HotkeyIdle ==
  /\ hk_hotkey \in {<<"ctrl", "a">>}
  /\ hk_registered = FALSE
  /\ hk_reg = [mods |-> 0, vk |-> 0]
  /\ lastParse = [mods |-> 0, vk |-> 0]

NavIdle ==
  /\ current_folder_id = RootId
  /\ folder_history = <<>>
  /\ navigating_back = FALSE
  /\ lastNav = NoNav

UiIdle ==
  /\ tree = [f \in FolderIds |-> <<>>]
  /\ lastMove = NoMove
  /\ MacroIdle
  /\ HotkeyIdle
  /\ NavIdle

\* the detector as constructed by __init__
Constructed ==
  /\ passthrough = FALSE
  /\ last_injected = FALSE
  /\ last_numlock_state = {}
  /\ running = FALSE
  /\ thread = NoThread
  /\ hook = NoHandle
  /\ timer_id = 0
  /\ osNumLock \in BOOLEAN
  /\ numlockKeyHeld = FALSE
  /\ osHooks = {}
  /\ osTimers = {}
  /\ quitPosted = [t \in Threads |-> FALSE]
  /\ tpc = [t \in Threads |-> "unborn"]
  /\ mpc = "idle"
  /\ joinElapsed = 0
  /\ lastCall = NoCall
  /\ startSeq = 0
  /\ stopSeq = 0
  /\ lastStartPre = "never"
  /\ startOutcome = "not_called"
  /\ stopOutcome = "not_called"
  /\ installFailed = [t \in Threads |-> FALSE]
  /\ tick_count = 0
  /\ rehookLog = <<>>
  /\ queue = <<>>
  /\ lastHandled = <<>>
  /\ published = <<>>
  /\ delivered = <<>>

\* SoftDeckApp's mode switching is left out: shortcut mode, no dialog open,
\* the window shown; the detector's own operations are called directly
NoApp ==
  /\ input_mode = "shortcut"
  /\ appPc = "none"
  /\ applyOutcome = "not_called"
  /\ dialogs = <<>>
  /\ windowVisible = TRUE
  /\ UiIdle

\* the life-cycle part of the state once start() has succeeded and thread 1
\* waits in GetMessageW with its hook and timer installed
SessionUp ==
  /\ running = TRUE
  /\ thread = 1
  /\ hook = 1
  /\ timer_id = 1
  /\ osHooks = {1}
  /\ osTimers = {<<1, 1>>}
  /\ quitPosted = [t \in Threads |-> FALSE]
  /\ tpc = [t \in Threads |-> IF t = 1 THEN "getmsg" ELSE "unborn"]
  /\ mpc = "idle"
  /\ joinElapsed = 0
  /\ startSeq = 1
  /\ stopSeq = 0
  /\ lastStartPre = "stopped"
  /\ startOutcome = "None"
  /\ stopOutcome = "not_called"
  /\ installFailed = [t \in Threads |-> FALSE]
  /\ tick_count = 0
  /\ rehookLog = <<>>

\* Spec starts where a capture session is up (LifeSpec reaches SessionUp):
\* _run has read Num Lock into _last_numlock_state (line 257)
Init ==
  /\ passthrough = FALSE
  /\ last_injected = FALSE
  /\ osNumLock \in BOOLEAN
  /\ last_numlock_state = {osNumLock}
  /\ numlockKeyHeld = FALSE
  /\ lastCall = NoCall
  /\ queue = <<>>
  /\ lastHandled = <<>>
  /\ published = <<>>
  /\ delivered = <<>>
  /\ SessionUp
  /\ NoApp

Next == KeyDown \/ KeyUp \/ SetPassthrough \/ NumLockMissed

Spec == Init /\ [][Next]_vars

\* ------------------------------------------------------ start() and stop()
lifeState == <<running, thread, hook, timer_id, osHooks, osTimers,
               quitPosted, tpc, installFailed, last_numlock_state>>

\* threading.Thread.is_alive()
is_alive(t) == tpc[t] \notin {"unborn", "dead"}

\* a thread owns a message queue once it has called into user32
\* (SetWindowsHookExW, line 248); PostThreadMessageW fails before that
HasQueue(t) == tpc[t] \in {"init", "check", "getmsg", "cleanup", "wedged"}

Unborn == {t \in Threads : tpc[t] = "unborn"}

\* what every start() call records, whatever it does
StartCalled ==
  /\ mpc = "idle"
  /\ startSeq' = 1 - startSeq
  /\ lastStartPre' = IF running THEN "running" ELSE "stopped"
  /\ startOutcome' = "None"
  /\ UNCHANGED <<passthrough, last_injected, last_numlock_state, hook,
                 timer_id, osNumLock, numlockKeyHeld, osHooks, osTimers,
                 quitPosted, joinElapsed, lastCall, stopSeq, stopOutcome,
                 installFailed, mpc, tickVars, qtVars>>

\* threading.Thread(target=self._run).start(), lines 148-150
SpawnThread ==
  /\ Unborn # {}
  /\ LET t == CHOOSE u \in Unborn : \A v \in Unborn : u <= v IN
       /\ running' = TRUE
       /\ thread' = t
       /\ tpc' = [tpc EXCEPT ![t] = "install"]

start_unguarded == StartCalled /\ SpawnThread

\* InputDetector.start
start ==
  /\ StartCalled
  /\ IF running
     THEN UNCHANGED <<running, thread, tpc>>
     ELSE SpawnThread

join_forever ==
  /\ mpc = "joining"
  /\ ~is_alive(thread)
  /\ mpc' = "idle"
  /\ stopOutcome' = "None"
  /\ UNCHANGED <<passthrough, last_injected, last_numlock_state, running,
                 thread, hook, timer_id, osNumLock, numlockKeyHeld, osHooks,
                 osTimers, quitPosted, tpc, joinElapsed, lastCall, startSeq,
                 stopSeq, lastStartPre, startOutcome, installFailed,
                 tickVars, qtVars, appVars>>

\* self._thread.join(timeout=2) returns: the thread ended or the time is up
join_returns ==
  /\ mpc = "joining"
  /\ ~is_alive(thread) \/ joinElapsed >= JoinTimeout
  /\ mpc' = "idle"
  /\ stopOutcome' = "None"
  /\ UNCHANGED <<passthrough, last_injected, last_numlock_state, running,
                 thread, hook, timer_id, osNumLock, numlockKeyHeld, osHooks,
                 osTimers, quitPosted, tpc, joinElapsed, lastCall, startSeq,
                 stopSeq, lastStartPre, startOutcome, installFailed,
                 tickVars, qtVars, appVars>>

\* a second passes while stop() waits in join(timeout=2)
join_waits ==
  /\ mpc = "joining"
  /\ is_alive(thread)
  /\ joinElapsed < JoinTimeout
  /\ joinElapsed' = joinElapsed + 1
  /\ UNCHANGED <<passthrough, last_injected, last_numlock_state, running,
                 thread, hook, timer_id, osNumLock, numlockKeyHeld, osHooks,
                 osTimers, quitPosted, tpc, mpc, lastCall, startSeq, stopSeq,
                 lastStartPre, startOutcome, stopOutcome, installFailed,
                 tickVars, qtVars, appVars>>

\* InputDetector.stop up to the join: clear _running, post WM_QUIT (0x0012)
\* to a live thread and start waiting; otherwise return at once
stop ==
  /\ mpc = "idle"
  /\ stopSeq' = 1 - stopSeq
  /\ running' = FALSE
  /\ IF thread # NoThread /\ is_alive(thread)
     THEN /\ quitPosted' = [quitPosted EXCEPT
                              ![thread] = @ \/ HasQueue(thread)]
          /\ mpc' = "joining"
          /\ joinElapsed' = 0
          /\ UNCHANGED stopOutcome
     ELSE /\ stopOutcome' = "None"
          /\ UNCHANGED <<quitPosted, mpc, joinElapsed>>
  /\ UNCHANGED <<passthrough, last_injected, last_numlock_state, thread,
                 hook, timer_id, osNumLock, numlockKeyHeld, osHooks, osTimers,
                 tpc, lastCall, startSeq, lastStartPre, startOutcome,
                 installFailed, tickVars, qtVars>>

\* ------------------------------------------------------------------- _run
initFrame == <<passthrough, last_injected, running, thread, osNumLock,
               numlockKeyHeld, mpc, joinElapsed, lastCall, startSeq,
               stopSeq, lastStartPre, startOutcome, stopOutcome, rehookLog,
               qtVars, appVars>>
threadFrame == <<initFrame, tick_count>>

\* the thread a hook handle belongs to: thread t gets the handles
\* t, t + MaxThreads, t + 2 * MaxThreads, ...
Owner(h) == ((h - 1) % MaxThreads) + 1

\* the handle SetWindowsHookExW gives thread t: its lowest free one
NewHandle(t, hs) ==
  LET cand == {t + k * MaxThreads : k \in 0..Cardinality(hs)}
      free == cand \ hs
  IN CHOOSE h \in free : \A g \in free : h <= g

\* when a thread ends, Windows removes the hooks and timers it owns
HooksAfterExit(t, hs) == {h \in hs : Owner(h) # t}
TimersAfterExit(t, ts) == {tm \in ts : tm[1] # t}

\* lines 248-254, SetWindowsHookExW returned a handle
run_install_ok(t) ==
  /\ tpc[t] = "install"
  /\ hook' = NewHandle(t, osHooks)
  /\ osHooks' = osHooks \cup {NewHandle(t, osHooks)}
  /\ tpc' = [tpc EXCEPT ![t] = "init"]
  /\ UNCHANGED <<last_numlock_state, timer_id, osTimers, quitPosted,
                 installFailed>>
  /\ UNCHANGED threadFrame

\* lines 248-253, SetWindowsHookExW returned NULL: log the error and return
run_install_fail(t) ==
  /\ tpc[t] = "install"
  /\ hook' = NoHandle
  /\ installFailed' = [installFailed EXCEPT ![t] = TRUE]
  /\ tpc' = [tpc EXCEPT ![t] = "dead"]
  /\ osHooks' = HooksAfterExit(t, osHooks)
  /\ osTimers' = TimersAfterExit(t, osTimers)
  /\ UNCHANGED <<last_numlock_state, timer_id, quitPosted>>
  /\ UNCHANGED threadFrame

\* lines 256-261: read Num Lock, SetTimer
run_init(t) ==
  /\ tpc[t] = "init"
  /\ last_numlock_state' = {osNumLock}
  /\ timer_id' = t
  /\ osTimers' = osTimers \cup {<<t, t>>}
  /\ tick_count' = 0
  /\ tpc' = [tpc EXCEPT ![t] = "check"]
  /\ UNCHANGED <<hook, osHooks, quitPosted, installFailed>>
  /\ UNCHANGED initFrame

\* line 266: while self._running
run_check(t) ==
  /\ tpc[t] = "check"
  /\ tpc' = [tpc EXCEPT ![t] = IF running THEN "getmsg" ELSE "cleanup"]
  /\ UNCHANGED <<last_numlock_state, hook, timer_id, osHooks, osTimers,
                 quitPosted, installFailed>>
  /\ UNCHANGED threadFrame

\* lines 267-269: GetMessageW returns 0 for WM_QUIT
run_get_quit(t) ==
  /\ tpc[t] = "getmsg"
  /\ quitPosted[t]
  /\ quitPosted' = [quitPosted EXCEPT ![t] = FALSE]
  /\ tpc' = [tpc EXCEPT ![t] = "cleanup"]
  /\ UNCHANGED <<last_numlock_state, hook, timer_id, osHooks, osTimers,
                 installFailed>>
  /\ UNCHANGED threadFrame

\* lines 267-274: GetMessageW returns another message, which is dispatched
run_dispatch(t) ==
  /\ tpc[t] = "getmsg"
  /\ tpc' = [tpc EXCEPT ![t] = "check"]
  /\ UNCHANGED <<last_numlock_state, hook, timer_id, osHooks, osTimers,
                 quitPosted, installFailed>>
  /\ UNCHANGED threadFrame

\* lines 276-282: KillTimer and UnhookWindowsHookEx on the instance fields
\* (KillTimer only reaches a timer of the calling thread), then the thread
\* returns
run_cleanup(t) ==
  /\ tpc[t] = "cleanup"
  /\ osTimers' = TimersAfterExit(t,
                   IF timer_id # 0 THEN osTimers \ {<<t, timer_id>>}
                   ELSE osTimers)
  /\ timer_id' = 0
  /\ osHooks' = HooksAfterExit(t,
                  IF hook # NoHandle THEN osHooks \ {hook} ELSE osHooks)
  /\ hook' = NoHandle
  /\ tpc' = [tpc EXCEPT ![t] = "dead"]
  /\ UNCHANGED <<last_numlock_state, quitPosted, installFailed>>
  /\ UNCHANGED threadFrame

\* the hook thread stops making progress inside GetMessageW/DispatchMessageW
\* (a callback or a dispatched message never returns)
run_wedged(t) ==
  /\ tpc[t] = "getmsg"
  /\ tpc' = [tpc EXCEPT ![t] = "wedged"]
  /\ UNCHANGED <<last_numlock_state, hook, timer_id, osHooks, osTimers,
                 quitPosted, installFailed>>
  /\ UNCHANGED threadFrame

RunInstallOk == \E t \in Threads : run_install_ok(t)
RunInstallFail == \E t \in Threads : run_install_fail(t)
RunInit == \E t \in Threads : run_init(t)
RunCheck == \E t \in Threads : run_check(t)
RunGetQuit == \E t \in Threads : run_get_quit(t)
RunDispatch == \E t \in Threads : run_dispatch(t)
RunCleanup == \E t \in Threads : run_cleanup(t)
RunWedged == \E t \in Threads : run_wedged(t)

LifeInit == Constructed /\ NoApp

LifeNext ==
  \/ start /\ UNCHANGED appVars
  \/ stop /\ UNCHANGED appVars
  \/ join_waits
  \/ join_returns
  \/ RunInstallOk
  \/ RunInstallFail
  \/ RunInit
  \/ RunCheck
  \/ RunGetQuit
  \/ RunDispatch
  \/ RunCleanup
  \/ RunWedged

LifeSpec == LifeInit /\ [][LifeNext]_vars

\* time passes, so a join(timeout) that can return does return
FairLifeSpec ==
  LifeSpec /\ WF_vars(join_waits) /\ WF_vars(join_returns)

\* -------------------------------------- signals on their way to the slots
\* the signals of _NumpadSignal that SoftDeckApp.__init__ connects to a slot
Connected == {"pressed", "numlock_changed"}

\* the slot a connected signal is connected to
SlotOf(sig) ==
  IF sig[1] = "pressed" THEN "on_global_numpad" ELSE "_on_numlock_changed"

\* emit() on the hook thread posts one event to the GUI thread for a
\* connected signal (queued connection across threads) and does nothing for
\* a signal without connection
Posted(sigs) == SelectSeq(sigs, LAMBDA sig : sig[1] \in Connected)

on_numlock_changed_norecheck(is_on) ==
  windowVisible' = IF input_mode = "widget" THEN windowVisible
                   ELSE IF is_on THEN FALSE
                   ELSE TRUE

\* SoftDeckApp._on_numlock_changed: nothing in widget mode; hide the window
\* when Num Lock went on; when it went off, read Num Lock again
\* (is_numlock_on) and show the window only if it is still off
on_numlock_changed(is_on) ==
  windowVisible' = IF input_mode = "widget" THEN windowVisible
                   ELSE IF is_on THEN FALSE
                   ELSE IF osNumLock THEN windowVisible
                   ELSE TRUE

\* the slot of an emission runs: MainWindow.on_global_numpad clicks the
\* button and leaves the window as it is
SlotRuns(sig) ==
  IF sig[1] = "numlock_changed" THEN on_numlock_changed(sig[2])
  ELSE UNCHANGED windowVisible

\* the GUI thread's event loop takes the oldest posted emission and calls
\* its slot with the emission's arguments
deliver ==
  /\ mpc = "idle"
  /\ queue # <<>>
  /\ lastHandled' = <<SlotOf(Head(queue))>> \o Tail(Head(queue))
  /\ SlotRuns(Head(queue))
  /\ queue' = Tail(queue)
  /\ UNCHANGED <<passthrough, last_injected, last_numlock_state, osNumLock,
                 numlockKeyHeld, lastCall>>
  /\ UNCHANGED <<lifeVars, tickVars, modeVars, dialogs, uiVars>>

\* ----------------------------------------- _on_tick and _reinstall_hook
\* the log keeps the outcomes of the last two calls
LastTwo(s) == IF Len(s) > 2 THEN SubSeq(s, Len(s) - 1, Len(s)) ELSE s

reinstall_hook_if_missing(t, ok) ==
  IF hook # NoHandle
  THEN UNCHANGED <<hook, osHooks, rehookLog>>
  ELSE /\ hook' = IF ok THEN NewHandle(t, osHooks) ELSE NoHandle
       /\ osHooks' = IF ok THEN osHooks \cup {NewHandle(t, osHooks)}
                     ELSE osHooks
       /\ rehookLog' =
            LastTwo(Append(rehookLog, IF ok THEN "ok" ELSE "failed"))

\* InputDetector._reinstall_hook on thread t; ok: SetWindowsHookExW returns
\* a handle. The outcome is logged (warning or debug line).
reinstall_hook(t, ok) ==
  LET unhooked == IF hook # NoHandle THEN osHooks \ {hook} ELSE osHooks
      h == IF ok THEN NewHandle(t, unhooked) ELSE NoHandle
  IN /\ hook' = h
     /\ osHooks' = IF ok THEN unhooked \cup {h} ELSE unhooked
     /\ rehookLog' =
          LastTwo(Append(rehookLog, IF ok THEN "ok" ELSE "failed"))

on_tick_nostore(t, ok) ==
  /\ tpc[t] = "getmsg"
  /\ timer_id # 0
  /\ <<t, timer_id>> \in osTimers
  /\ UNCHANGED last_numlock_state
  /\ queue' = queue \o Posted(IF {osNumLock} # last_numlock_state
                              THEN <<SigNumLock(osNumLock)>> ELSE <<>>)
  /\ IF tick_count + 1 >= REHOOK_TICKS
     THEN tick_count' = 0 /\ reinstall_hook(t, ok)
     ELSE tick_count' = tick_count + 1
          /\ UNCHANGED <<hook, osHooks, rehookLog>>
  /\ tpc' = [tpc EXCEPT ![t] = "check"]
  /\ UNCHANGED <<passthrough, last_injected, osNumLock, numlockKeyHeld,
                 lastCall, running, thread, timer_id, osTimers, quitPosted,
                 mpc, joinElapsed, startSeq, stopSeq, lastStartPre,
                 startOutcome, stopOutcome, installFailed, lastHandled,
                 delivered, appVars>>

\* GetMessageW returns WM_TIMER of the thread's timer with
\* wParam = self._timer_id: _on_tick runs, then `continue`
on_tick(t, ok) ==
  /\ tpc[t] = "getmsg"
  /\ timer_id # 0
  /\ <<t, timer_id>> \in osTimers
  /\ last_numlock_state' = {osNumLock}
  /\ queue' = queue \o Posted(IF {osNumLock} # last_numlock_state
                              THEN <<SigNumLock(osNumLock)>> ELSE <<>>)
  /\ IF tick_count + 1 >= REHOOK_TICKS
     THEN tick_count' = 0 /\ reinstall_hook(t, ok)
     ELSE tick_count' = tick_count + 1
          /\ UNCHANGED <<hook, osHooks, rehookLog>>
  /\ tpc' = [tpc EXCEPT ![t] = "check"]
  /\ UNCHANGED <<passthrough, last_injected, osNumLock, numlockKeyHeld,
                 lastCall, running, thread, timer_id, osTimers, quitPosted,
                 mpc, joinElapsed, startSeq, stopSeq, lastStartPre,
                 startOutcome, stopOutcome, installFailed, lastHandled,
                 delivered, appVars>>

\* Windows silently removes the hook (its callback exceeded
\* LowLevelHooksTimeout); self._hook keeps the stale handle
Evict ==
  /\ hook \in osHooks
  /\ osHooks' = osHooks \ {hook}
  /\ UNCHANGED <<passthrough, last_injected, last_numlock_state, osNumLock,
                 numlockKeyHeld, lastCall, running, thread, hook, timer_id,
                 osTimers, quitPosted, tpc, mpc, joinElapsed, startSeq,
                 stopSeq, lastStartPre, startOutcome, stopOutcome,
                 installFailed, tickVars, qtVars, appVars>>

RunTick ==
  \E t \in Threads, ok \in BOOLEAN : on_tick(t, ok) /\ UNCHANGED published

\* Num Lock changes behind the hook's back, while the GUI thread's queue
\* has room for the emission the next poll makes
NumLockDrift == Len(queue) < MaxQueue /\ NumLockMissed

TickDeliver == deliver /\ UNCHANGED <<published, delivered>>

TickInit == Init

TickNext ==
  \/ RunTick
  \/ RunCheck
  \/ Evict
  \/ NumLockDrift
  \/ TickDeliver

TickSpec == TickInit /\ [][TickNext]_vars

\* ----------------------------------------------- from the hook to the slots
\* the key events of the numpad: the nine navigation codes, VK_INSERT and
\* Num Lock, as the keyboard sends them (not injected, not extended)
NumpadEvents ==
  {ev \in KeyEvents : /\ ev.nCode = 0
                      /\ ev.flags = 0
                      /\ ev.vkCode \in NavCodes \cup {VK_INSERT, VK_NUMLOCK}}

\* _hook_proc runs for a numpad key and Qt posts what it emits; the history
\* and the GUI thread's queue have room
ChanKey(ev) ==
  /\ Len(published) < MaxQueue
  /\ Len(queue) < MaxQueue
  /\ HookProc(ev)
  /\ queue' = queue \o Posted(lastCall'.emits)
  /\ published' = published \o Posted(lastCall'.emits)

ChanKeyDown == \E ev \in NumpadEvents : IsDown(ev.wParam) /\ ChanKey(ev)
ChanKeyUp == \E ev \in NumpadEvents : IsUp(ev.wParam) /\ ChanKey(ev)

deliver_newest ==
  /\ mpc = "idle"
  /\ queue # <<>>
  /\ lastHandled' = <<SlotOf(queue[Len(queue)])>> \o Tail(queue[Len(queue)])
  /\ delivered' = Append(delivered, queue[Len(queue)])
  /\ SlotRuns(queue[Len(queue)])
  /\ queue' = SubSeq(queue, 1, Len(queue) - 1)
  /\ UNCHANGED <<passthrough, last_injected, last_numlock_state, osNumLock,
                 numlockKeyHeld, lastCall, published>>
  /\ UNCHANGED <<lifeVars, tickVars, modeVars, dialogs, uiVars>>

\* the slot call, with the history of the calls
Deliver ==
  /\ deliver
  /\ delivered' = Append(delivered, Head(queue))
  /\ UNCHANGED published

ChanInit == Init

ChanNext == ChanKeyDown \/ ChanKeyUp \/ Deliver

ChanSpec == ChanInit /\ [][ChanNext]_vars

\* the GUI thread's event loop keeps running
FairChanSpec == ChanSpec /\ WF_vars(Deliver)

\* ------------------------------------------------- dialogs and passthrough
\* the dialogs whose exec() the application brackets with
\* set_numpad_passthrough(True) / set_numpad_passthrough(False)
DialogKinds == {"settings_tray", "settings_title", "button_editor",
                "folder_name", "folder_edit"}
SettingsKinds == {"settings_tray", "settings_title"}

\* A dialog is opened: set_numpad_passthrough(True), then exec(), which runs
\* a nested event loop. The other windows take no input while a modal
\* dialog is open, but the tray icon's menu does, so Settings can be opened
\* from the tray over any dialog.
open_dialog(kind) ==
  /\ Len(dialogs) < MaxDialogs
  /\ kind = "settings_tray" \/ dialogs = <<>>
  /\ set_passthrough(TRUE)
  /\ dialogs' = Append(dialogs, kind)
  /\ UNCHANGED <<modeVars, uiVars>>

\* exec() of the newest dialog returns (the nested event loops end newest
\* first): set_numpad_passthrough(False); an accepted settings dialog has
\* stored the input mode and reload_config() calls apply_input_mode()
close_dialog(result, mode) ==
  /\ dialogs # <<>>
  /\ set_passthrough(FALSE)
  /\ dialogs' = SubSeq(dialogs, 1, Len(dialogs) - 1)
  /\ UNCHANGED uiVars
  /\ IF result /\ dialogs[Len(dialogs)] \in SettingsKinds
     THEN /\ input_mode' = mode
          /\ applyOutcome' = "AttributeError"
          /\ UNCHANGED appPc
     ELSE UNCHANGED modeVars

OpenDialog == \E kind \in DialogKinds : open_dialog(kind)
CloseDialog ==
  \E result \in BOOLEAN, mode \in {"shortcut", "widget"} :
     close_dialog(result, mode)

\* a numpad key while dialogs open and close
DialogKey ==
  \E ev \in NumpadEvents : HookProc(ev) /\ UNCHANGED <<queue, published>>

\* a capture session is up and the application runs in shortcut mode
AppUp ==
  /\ passthrough = FALSE
  /\ last_injected = FALSE
  /\ osNumLock \in BOOLEAN
  /\ last_numlock_state = {osNumLock}
  /\ numlockKeyHeld = FALSE
  /\ lastCall = NoCall
  /\ queue = <<>>
  /\ lastHandled = <<>>
  /\ published = <<>>
  /\ delivered = <<>>
  /\ SessionUp
  /\ input_mode = "shortcut"
  /\ appPc = "up"
  /\ applyOutcome = "not_called"
  /\ dialogs = <<>>
  /\ windowVisible = TRUE

DialogInit == AppUp /\ UiIdle

DialogNext == OpenDialog \/ CloseDialog \/ DialogKey

DialogSpec == DialogInit /\ [][DialogNext]_vars

\* ------------------------------------------------------------- SoftDeckApp
\* all but the application's own state
detVars == <<passthrough, last_injected, last_numlock_state, osNumLock,
             numlockKeyHeld, lastCall, lifeVars, tickVars, qtVars>>

InputModes == {"shortcut", "widget"}

\* SoftDeckApp.__init__, lines 85-88: the detector is constructed and, in
\* shortcut mode, started
SoftDeckApp_init ==
  /\ appPc = "none"
  /\ appPc' = "up"
  /\ IF input_mode = "shortcut" THEN start ELSE UNCHANGED detVars
  /\ UNCHANGED <<input_mode, applyOutcome, dialogs, windowVisible, uiVars>>

\* The settings dialog stores the chosen mode (settings_dialog.py:139) and
\* reload_config calls SoftDeckApp.apply_input_mode, which reads
\* self._input_detector.is_running in either branch (lines 533 and 538).
\* InputDetector has no attribute of that name (its flag is _running), so
\* the read raises AttributeError before start(), stop() or the window
\* calls are reached.
apply_input_mode(mode) ==
  /\ appPc = "up"
  /\ mpc = "idle"
  /\ input_mode' = mode
  /\ applyOutcome' = "AttributeError"
  /\ UNCHANGED <<appPc, dialogs, windowVisible, uiVars>>
  /\ UNCHANGED detVars

ApplyInputMode == \E mode \in InputModes : apply_input_mode(mode)

\* SoftDeckApp.cleanup, lines 548-552: stop the detector
cleanup ==
  /\ appPc = "up"
  /\ appPc' = "closed"
  /\ stop
  /\ UNCHANGED <<input_mode, applyOutcome, dialogs, windowVisible, uiVars>>

AppInit ==
  /\ Constructed
  /\ input_mode \in InputModes
  /\ appPc = "none"
  /\ applyOutcome = "not_called"
  /\ dialogs = <<>>
  /\ windowVisible = (input_mode = "widget" \/ ~osNumLock)
  /\ UiIdle

AppNext ==
  \/ SoftDeckApp_init
  \/ ApplyInputMode
  \/ cleanup
  \/ join_waits
  \/ join_returns
  \/ RunInstallOk
  \/ RunInstallFail
  \/ RunInit
  \/ RunCheck
  \/ RunGetQuit
  \/ RunDispatch
  \/ RunCleanup
  \/ RunWedged

AppSpec == AppInit /\ [][AppNext]_vars

\* ------------------------------------------- ConfigManager: folder operations
\* A FolderConfig is an object the tree holds by reference; the model names it
\* by its id, which uuid4 makes unique, and keeps its `children` list in
\* tree[id].  NoFolder stands for Python's None.
coreVars == <<detVars, modeVars, dialogs, windowVisible>>
nonFolderVars == <<coreVars, macroVars, hotkeyVars, navVars>>

Positions == (-1)..(MaxFolders - 1)

RECURSIVE _find_folder(_, _, _)
RECURSIVE find_folder_children(_, _, _, _)
\* the `for child in folder.children` loop of _find_folder, from child i on
find_folder_children(tr, children, i, folder_id) ==
  IF i > Len(children) THEN NoFolder
  ELSE LET result == _find_folder(tr, children[i], folder_id)
       IN  IF result # NoFolder THEN result
           ELSE find_folder_children(tr, children, i + 1, folder_id)

_find_folder(tr, folder, folder_id) ==
  IF folder = folder_id THEN folder
  ELSE find_folder_children(tr, tr[folder], 1, folder_id)

get_folder_by_id(tr, folder_id) == _find_folder(tr, RootId, folder_id)

RECURSIVE _find_parent(_, _, _)
RECURSIVE find_parent_children(_, _, _, _, _)
\* the `for child in folder.children` loop of _find_parent, from child i on
find_parent_children(tr, folder, children, i, folder_id) ==
  IF i > Len(children) THEN NoFolder
  ELSE IF children[i] = folder_id THEN folder
  ELSE LET result == _find_parent(tr, children[i], folder_id)
       IN  IF result # NoFolder THEN result
           ELSE find_parent_children(tr, folder, children, i + 1, folder_id)

_find_parent(tr, folder, folder_id) ==
  find_parent_children(tr, folder, tr[folder], 1, folder_id)

find_parent_folder(tr, folder_id) == _find_parent(tr, RootId, folder_id)

RECURSIVE _is_descendant(_, _, _)
\* _is_descendant without the recursion into the children
is_descendant_shallow(tr, ancestor, target_id) ==
  \/ ancestor = target_id
  \/ \E i \in 1..Len(tr[ancestor]) : tr[ancestor][i] = target_id

_is_descendant(tr, ancestor, target_id) ==
  \/ ancestor = target_id
  \/ \E i \in 1..Len(tr[ancestor]) :
       _is_descendant(tr, tr[ancestor][i], target_id)

\* [c for c in children if c.id != folder_id]
without(children, folder_id) ==
  SelectSeq(children, LAMBDA c : c # folder_id)

\* list.insert(position, folder) for 0 <= position < len(children)
insert(children, position, folder) ==
  SubSeq(children, 1, position) \o <<folder>>
    \o SubSeq(children, position + 1, Len(children))

\* the ids no folder of the tree has
unused(tr) == {f \in 1..MaxFolders : get_folder_by_id(tr, f) = NoFolder}

\* add_folder: a new, empty folder under parent_id; the uuid4 id is one no
\* folder has
add_folder(parent_id) ==
  /\ get_folder_by_id(tree, parent_id) # NoFolder
  /\ \E new_folder \in unused(tree) :
       tree' = [tree EXCEPT ![parent_id] = Append(@, new_folder),
                            ![new_folder] = <<>>]
  /\ UNCHANGED <<lastMove, nonFolderVars>>

\* delete_folder: the folder leaves its parent's children; nothing refers to
\* the folders of its subtree any more, and their objects are gone
without_folder(tr, folder_id) ==
  LET parent == find_parent_folder(tr, folder_id)
      removed == [tr EXCEPT ![parent] = without(@, folder_id)]
  IN  [f \in FolderIds |->
         IF get_folder_by_id(removed, f) = NoFolder THEN <<>> ELSE removed[f]]

delete_folder(folder_id) ==
  /\ folder_id # RootId
  /\ find_parent_folder(tree, folder_id) # NoFolder
  /\ tree' = without_folder(tree, folder_id)
  /\ UNCHANGED <<lastMove, nonFolderVars>>

\* move_folder: what it returns and the tree it leaves
move_folder(tr, folder_id, new_parent_id, position) ==
  LET same == [result |-> FALSE, tree |-> tr]
      folder == get_folder_by_id(tr, folder_id)
      new_parent == get_folder_by_id(tr, new_parent_id)
      old_parent == find_parent_folder(tr, folder_id)
  IN  IF folder_id = RootId THEN same
      ELSE IF folder = NoFolder THEN same
      ELSE IF new_parent = NoFolder THEN same
      ELSE IF _is_descendant(tr, folder, new_parent_id) THEN same
      ELSE IF old_parent = NoFolder THEN same
      ELSE LET removed == [tr EXCEPT ![old_parent] = without(@, folder_id)]
               children == removed[new_parent]
           IN  [result |-> TRUE,
                tree |-> [removed EXCEPT ![new_parent] =
                            IF position < 0 \/ position >= Len(children)
                            THEN Append(children, folder)
                            ELSE insert(children, position, folder)]]

MoveFolder ==
  \E folder_id \in FolderIds, new_parent_id \in FolderIds,
     position \in Positions :
    LET r == move_folder(tree, folder_id, new_parent_id, position)
    IN  /\ tree' = r.tree
        /\ lastMove' = [seq |-> 1 - lastMove.seq, folder_id |-> folder_id,
                        new_parent_id |-> new_parent_id,
                        result |-> r.result]
        /\ UNCHANGED nonFolderVars

AddFolder == \E parent_id \in FolderIds : add_folder(parent_id)

DeleteFolder == \E folder_id \in FolderIds : delete_folder(folder_id)

FolderInit == DialogInit /\ ~osNumLock

FolderNext == AddFolder \/ DeleteFolder \/ MoveFolder

FolderSpec == FolderInit /\ [][FolderNext]_vars

\* ------------------------------------------------------------ MacroRecorder
\* A pynput key as the keyboard listener hands it to the callbacks: its vk
\* (what _get_vk returns) and its name (what _key_to_str returns).
Keys == {[name |-> "f9", vk |-> _STOP_VK],
         [name |-> "esc", vk |-> _CANCEL_VK],
         [name |-> "a", vk |-> 65]}

\* the callbacks run on the listener's thread, stop() and cancel() on the GUI
\* thread: a callback that has passed its `if not self._running` check may
\* append its step after the GUI thread has ended the recording
nonMacroVars == <<coreVars, folderVars, hotkeyVars, navVars>>

\* MacroRecorder.start
rec_start ==
  IF rec_running
  THEN UNCHANGED <<rec_running, events, kb_listener, recLog, lastEnd>>
  ELSE /\ events' = <<>>
       /\ rec_running' = TRUE
       /\ kb_listener' = TRUE
       /\ recLog' = <<>>
       /\ lastEnd' = "none"

\* MacroRecorder.stop without the `if not self._running` guard
rec_stop_unguarded ==
  /\ rec_running' = FALSE
  /\ kb_listener' = FALSE
  /\ recLog' = Append(recLog, [sig |-> "recording_stopped", steps |-> events])
  /\ dlgResult' = "accepted"
  /\ lastEnd' = "stop"
  /\ UNCHANGED events

\* MacroRecorder.stop, with the dialog's _on_recording_stopped slot the
\* emit runs
rec_stop ==
  IF ~rec_running
  THEN /\ lastEnd' = "stop_noop"
       /\ UNCHANGED <<rec_running, events, kb_listener, recLog, dlgResult>>
  ELSE /\ rec_running' = FALSE
       /\ kb_listener' = FALSE
       /\ recLog' = Append(recLog,
                           [sig |-> "recording_stopped", steps |-> events])
       /\ dlgResult' = "accepted"
       /\ lastEnd' = "stop"
       /\ UNCHANGED events

\* MacroRecorder.cancel, with the dialog's _on_recording_cancelled slot
rec_cancel ==
  IF ~rec_running
  THEN /\ lastEnd' = "cancel_noop"
       /\ UNCHANGED <<rec_running, events, kb_listener, recLog, dlgResult>>
  ELSE /\ rec_running' = FALSE
       /\ kb_listener' = FALSE
       /\ events' = <<>>
       /\ recLog' = Append(recLog,
                           [sig |-> "recording_cancelled", steps |-> <<>>])
       /\ dlgResult' = "rejected"
       /\ lastEnd' = "cancel"

\* _macro_start_recording: a recorder is started and its dialog opened
StartRecording ==
  /\ rec_start
  /\ dlgResult' = "open"
  /\ UNCHANGED <<shots, kbPc, lastKey, event_count, nonMacroVars>>

\* the dialog's Stop and Cancel buttons
OnStop ==
  /\ dlgResult = "open"
  /\ rec_stop
  /\ UNCHANGED <<shots, kbPc, lastKey, event_count, nonMacroVars>>

OnCancel ==
  /\ dlgResult = "open"
  /\ rec_cancel
  /\ UNCHANGED <<shots, kbPc, lastKey, event_count, nonMacroVars>>

\* QTimer.singleShot(0, f): f is queued for the GUI thread; c is the count
\* the lambda of _emit_count has bound
singleShot(f, c) == shots' = Append(shots, [f |-> f, c |-> c])

\* _on_key_press, up to the step it is about to record
on_key_press(key) ==
  IF key.vk = _STOP_VK THEN singleShot("stop", 0) /\ UNCHANGED kbPc
  ELSE IF key.vk = _CANCEL_VK THEN singleShot("cancel", 0) /\ UNCHANGED kbPc
  ELSE /\ kbPc' = [type |-> "key_down", key |-> key.name, vk |-> key.vk]
       /\ UNCHANGED shots

\* _on_key_release without the test for the control keys
on_key_release_nofilter(key) ==
  /\ kbPc' = [type |-> "key_up", key |-> key.name, vk |-> key.vk]
  /\ UNCHANGED shots

\* _on_key_release, up to the step it is about to record
on_key_release(key) ==
  IF key.vk \in {_STOP_VK, _CANCEL_VK} THEN UNCHANGED <<kbPc, shots>>
  ELSE /\ kbPc' = [type |-> "key_up", key |-> key.name, vk |-> key.vk]
       /\ UNCHANGED shots

NoStep == [type |-> "none", key |-> "", vk |-> 0]
DelayStep == [type |-> "delay", key |-> "", vk |-> 0]

\* a key event reaches its callback
OnKey ==
  /\ kbPc = NoStep
  /\ Len(events) < MaxSteps
  /\ Len(shots) < MaxShots
  /\ \E key \in Keys, type \in {"press", "release"} :
       /\ lastKey' = [type |-> type, vk |-> key.vk, running |-> rec_running]
       /\ IF ~rec_running THEN UNCHANGED <<kbPc, shots>>
          ELSE IF type = "press" THEN on_key_press(key)
          ELSE on_key_release(key)
  /\ UNCHANGED <<rec_running, events, kb_listener, recLog, lastEnd, dlgResult,
                 event_count, nonMacroVars>>

\* the number _emit_count posts
count(evs) == Len(SelectSeq(evs, LAMBDA e : e.type # "delay"))

\* the rest of the callback: _append_delay, the append, _emit_count
OnKeyAppend ==
  /\ kbPc # NoStep
  /\ Len(shots) < MaxShots
  /\ \E delay \in BOOLEAN :
       LET evs == (IF delay THEN Append(events, DelayStep) ELSE events)
       IN  /\ Len(evs) < MaxSteps
           /\ events' = Append(evs, kbPc)
           /\ singleShot("event_recorded", count(Append(evs, kbPc)))
  /\ kbPc' = NoStep
  /\ UNCHANGED <<rec_running, kb_listener, recLog, lastEnd, dlgResult, lastKey,
                 event_count, nonMacroVars>>

\* the GUI thread runs the oldest queued call
RunShot ==
  /\ shots # <<>>
  /\ shots' = Tail(shots)
  /\ IF Head(shots).f = "stop" THEN rec_stop /\ UNCHANGED event_count
     ELSE IF Head(shots).f = "cancel" THEN rec_cancel /\ UNCHANGED event_count
     ELSE /\ event_count' = Head(shots).c
          /\ UNCHANGED <<rec_running, events, kb_listener, recLog, lastEnd,
                         dlgResult>>
  /\ UNCHANGED <<kbPc, lastKey, nonMacroVars>>

MacroInit == DialogInit /\ ~osNumLock

MacroNext ==
  StartRecording \/ OnStop \/ OnCancel \/ OnKey \/ OnKeyAppend \/ RunShot

MacroSpec == MacroInit /\ [][MacroNext]_vars

\* ------------------------------------------------------- GlobalHotkeyService
\* A hotkey string is kept as the parts its "+" signs separate, each part as
\* it is written: lower() and replace(" ", "") are applied by normal_part.
RawParts == {"ctrl", "control", "shift", "alt", "win", "windows",
             "Alt", "ctrl ", "a"}

\* part.lower().replace(" ", "")
normal_part(part) ==
  CASE part = "Alt" -> "alt"
    [] part = "ctrl " -> "ctrl"
    [] OTHER -> part

Hotkeys == UNION {[1..n -> RawParts] : n \in 1..MaxParts}

RECURSIVE BitOr(_, _)
\* a | b
BitOr(a, b) ==
  IF a = 0 THEN b
  ELSE IF b = 0 THEN a
  ELSE (IF a % 2 = 1 \/ b % 2 = 1 THEN 1 ELSE 0)
         + 2 * BitOr(a \div 2, b \div 2)

\* `part in _MOD_MAP` and _MOD_MAP[part]
InModMap(part) ==
  part \in {"ctrl", "control", "shift", "alt", "win", "windows"}

_MOD_MAP(part) ==
  CASE part = "ctrl" -> MOD_CONTROL
    [] part = "control" -> MOD_CONTROL
    [] part = "shift" -> MOD_SHIFT
    [] part = "alt" -> MOD_SHIFT
    [] part = "win" -> MOD_WIN
    [] part = "windows" -> MOD_WIN

\* the vk of a part that is no modifier: "a" is the one such part here,
\* a single letter, ord("A")
part_vk(part) == IF part = "a" THEN 65 ELSE 0

RECURSIVE parse_parts(_, _, _, _)
\* the `for part in parts` loop of _parse_hotkey, from part i on
parse_parts(parts, i, mods, vk) ==
  IF i > Len(parts) THEN [mods |-> mods, vk |-> vk]
  ELSE LET part == normal_part(parts[i])
       IN  IF InModMap(part)
           THEN parse_parts(parts, i + 1, BitOr(mods, _MOD_MAP(part)), vk)
           ELSE IF part_vk(part) # 0
           THEN parse_parts(parts, i + 1, mods, part_vk(part))
           ELSE parse_parts(parts, i + 1, mods, vk)

_parse_hotkey(hotkey_str) == parse_parts(hotkey_str, 1, MOD_NOREPEAT, 0)

NoParse == [mods |-> 0, vk |-> 0]

nonHotkeyVars == <<coreVars, folderVars, macroVars, navVars>>

\* GlobalHotkeyService.start; ok is what RegisterHotKey returns
hk_start(hotkey, registered, ok) ==
  IF registered
  THEN UNCHANGED <<hk_registered, hk_reg, lastParse>>
  ELSE LET p == _parse_hotkey(hotkey)
       IN  /\ lastParse' = p
           /\ IF p.vk = 0 \/ ~ok
              THEN hk_registered' = FALSE /\ hk_reg' = NoParse
              ELSE hk_registered' = TRUE /\ hk_reg' = p

HkStart ==
  /\ \E ok \in BOOLEAN : hk_start(hk_hotkey, hk_registered, ok)
  /\ UNCHANGED <<hk_hotkey, nonHotkeyVars>>

\* GlobalHotkeyService.stop
HkStop ==
  /\ hk_registered' = FALSE
  /\ hk_reg' = NoParse
  /\ UNCHANGED <<hk_hotkey, lastParse, nonHotkeyVars>>

\* GlobalHotkeyService.update_hotkey: stop, then start with the new string
UpdateHotkey ==
  /\ \E new_hotkey \in Hotkeys, ok \in BOOLEAN :
       /\ hk_hotkey' = new_hotkey
       /\ hk_start(new_hotkey, FALSE, ok)
  /\ UNCHANGED nonHotkeyVars

HotkeyInit ==
  /\ DialogInit
  /\ ~osNumLock

HotkeyNext == HkStart \/ HkStop \/ UpdateHotkey

HotkeySpec == HotkeyInit /\ [][HotkeyNext]_vars

\* ------------------------------------------------- MainWindow: navigation
nonNavVars == <<coreVars, macroVars, hotkeyVars, lastMove>>

\* _load_current_folder: a current folder that is gone is replaced by root
load_current_folder(tr, cur) ==
  IF get_folder_by_id(tr, cur) = NoFolder THEN RootId ELSE cur

\* self._folder_history[-50:]
last_entries(hist) ==
  IF Len(hist) > HistoryCap
  THEN SubSeq(hist, Len(hist) - HistoryCap + 1, Len(hist))
  ELSE hist

\* switch_to_folder_id without the test of _navigating_back
switch_always_append(tr, cur, hist, nb, folder_id) ==
  IF get_folder_by_id(tr, folder_id) = NoFolder THEN [cur |-> cur, hist |-> hist]
  ELSE IF folder_id = cur THEN [cur |-> cur, hist |-> hist]
  ELSE [cur |-> load_current_folder(tr, folder_id),
        hist |-> last_entries(Append(hist, cur))]

\* switch_to_folder_id: the current folder and the history it leaves; nb is
\* _navigating_back
switch_to_folder_id(tr, cur, hist, nb, folder_id) ==
  IF get_folder_by_id(tr, folder_id) = NoFolder THEN [cur |-> cur, hist |-> hist]
  ELSE IF folder_id = cur THEN [cur |-> cur, hist |-> hist]
  ELSE [cur |-> load_current_folder(tr, folder_id),
        hist |-> IF ~nb THEN last_entries(Append(hist, cur)) ELSE hist]

RECURSIVE navigate_back(_, _, _)
\* navigate_back: history entries of folders that are gone are skipped
navigate_back(tr, cur, hist) ==
  IF hist # <<>>
  THEN LET target_id == hist[Len(hist)]
           popped == SubSeq(hist, 1, Len(hist) - 1)
       IN  IF get_folder_by_id(tr, target_id) = NoFolder
           THEN navigate_back(tr, cur, popped)
           ELSE switch_to_folder_id(tr, cur, popped, TRUE, target_id)
  ELSE IF cur # RootId
  THEN LET parent == find_parent_folder(tr, cur)
       IN  IF parent # NoFolder
           THEN switch_to_folder_id(tr, cur, hist, TRUE, parent)
           ELSE [cur |-> cur, hist |-> hist]
  ELSE [cur |-> cur, hist |-> hist]

\* navigate_parent
navigate_parent(tr, cur, hist, nb) ==
  IF cur = RootId THEN [cur |-> cur, hist |-> hist]
  ELSE LET parent == find_parent_folder(tr, cur)
       IN  IF parent # NoFolder
           THEN switch_to_folder_id(tr, cur, hist, nb, parent)
           ELSE [cur |-> cur, hist |-> hist]

\* a click in the folder tree, a navigate_folder button or the switch to the
\* folder of the active application
SwitchToFolder ==
  /\ Len(folder_history) < MaxHistory
  /\ \E folder_id \in FolderIds :
       LET r == switch_to_folder_id(tree, current_folder_id, folder_history,
                                    navigating_back, folder_id)
       IN  /\ current_folder_id' = r.cur
           /\ folder_history' = r.hist
           /\ lastNav' = [op |-> "switch", folder_id |-> folder_id,
                          cur |-> current_folder_id, hist |-> folder_history]
  /\ UNCHANGED <<navigating_back, tree, nonNavVars>>

\* the navigate_back button or numpad 0
NavigateBack ==
  LET r == navigate_back(tree, current_folder_id, folder_history)
  IN  /\ current_folder_id' = r.cur
      /\ folder_history' = r.hist
      /\ navigating_back' = FALSE
      /\ lastNav' = [op |-> "back", folder_id |-> NoFolder,
                     cur |-> current_folder_id, hist |-> folder_history]
      /\ UNCHANGED <<tree, nonNavVars>>

\* the navigate_parent button
NavigateParent ==
  /\ Len(folder_history) < MaxHistory
  /\ LET r == navigate_parent(tree, current_folder_id, folder_history,
                              navigating_back)
     IN  /\ current_folder_id' = r.cur
         /\ folder_history' = r.hist
         /\ lastNav' = [NoNav EXCEPT !.op = "parent"]
  /\ UNCHANGED <<navigating_back, tree, nonNavVars>>

\* FolderTreeWidget._delete_folder: after a deletion root is selected
TreeDeleteFolder ==
  /\ Len(folder_history) < MaxHistory
  /\ \E folder_id \in FolderIds :
       /\ folder_id # RootId
       /\ find_parent_folder(tree, folder_id) # NoFolder
       /\ LET tr == without_folder(tree, folder_id)
              r == switch_to_folder_id(tr, current_folder_id, folder_history,
                                       navigating_back, RootId)
          IN  /\ tree' = tr
              /\ current_folder_id' = r.cur
              /\ folder_history' = r.hist
  /\ lastNav' = NoNav
  /\ UNCHANGED <<navigating_back, nonNavVars>>

\* a config with folder 1 and its sub-folder MaxFolders, and the other
\* folders next to folder 1 under root
NavTree ==
  [f \in FolderIds |->
     IF f = RootId THEN [i \in 1..(MaxFolders - 1) |-> i]
     ELSE IF f = 1 THEN <<MaxFolders>>
     ELSE <<>>]

NavInit ==
  /\ AppUp
  /\ ~osNumLock
  /\ tree = NavTree
  /\ lastMove = NoMove
  /\ MacroIdle
  /\ HotkeyIdle
  /\ NavIdle

NavNext == SwitchToFolder \/ NavigateBack \/ NavigateParent \/ TreeDeleteFolder

NavSpec == NavInit /\ [][NavNext]_vars

\* ================================================================= claims
\* the last callback was a real call with nCode >= 0
Called == lastCall.ret # "none" /\ lastCall.nCode >= 0
CallInjected == HasFlag(lastCall.flags, LLKHF_INJECTED)
CallExtended == HasFlag(lastCall.flags, LLKHF_EXTENDED)
TableCodes == NavCodes \cup {VK_INSERT}

\* a button-press or back-navigation notification among those of the call
ClaimedSignal ==
  \E i \in DOMAIN lastCall.emits :
     lastCall.emits[i][1] \in {"pressed", "back_pressed"}

\* the digit printed on the numpad key that sends a navigation code while
\* Num Lock is off
NumpadDigit(vk) ==
  CASE vk = VK_HOME -> 7 [] vk = VK_UP -> 8 [] vk = VK_PRIOR -> 9
    [] vk = VK_LEFT -> 4 [] vk = VK_CLEAR -> 5 [] vk = VK_RIGHT -> 6
    [] vk = VK_END -> 1 [] vk = VK_DOWN -> 2 [] vk = VK_NEXT -> 3

\* the place of a digit in the 7,8,9 / 4,5,6 / 1,2,3 grid
GridPos(d) == <<2 - ((d - 1) \div 3), (d - 1) % 3>>

\* C1: a key-up that follows the suppressed key-down of the same key is
\* suppressed as well, whatever set_passthrough() calls and Num Lock changes
\* came in between.
SuppressedDownHasSuppressedUp ==
  lastCall.afterSuppressedDown => lastCall.ret = "suppress"

\* C2: an event with the injected flag, for every table code and VK_INSERT,
\* whatever the extended flag and Num Lock, is passed on (CallNextHookEx) and
\* produces no button-press or back-navigation notification.
InjectedNeverClaimed ==
  (Called /\ CallInjected /\ lastCall.vkCode \in TableCodes)
     => (lastCall.ret = "call_next" /\ ~ClaimedSignal)

InjectedNeverClaimedWitness ==
  /\ Called /\ CallInjected
  /\ lastCall.wParam = WM_KEYDOWN
  /\ lastCall.vkCode = VK_INSERT
  /\ ~CallExtended /\ ~lastCall.numlock /\ ~lastCall.passthrough
  /\ lastCall.ret = "call_next"

\* C3: not injected, Num Lock off: a navigation code without the extended
\* flag is the numpad button of its digit (pressed(row, col) on key-down,
\* event suppressed, when passthrough is off), and the same code with the
\* extended flag is nothing: no notification, event passed on.
ExtendedFlagDisambiguates ==
  (Called /\ ~CallInjected /\ ~lastCall.numlock
     /\ lastCall.vkCode \in NavCodes)
  => IF CallExtended
     THEN lastCall.ret = "call_next" /\ lastCall.emits = <<>>
     ELSE ~lastCall.passthrough =>
            /\ lastCall.ret = "suppress"
            /\ IsDown(lastCall.wParam) =>
                 lastCall.emits =
                   <<SigPressed(GridPos(NumpadDigit(lastCall.vkCode)))>>

ExtendedFlagDisambiguatesWitness ==
  /\ Called /\ ~CallInjected /\ ~lastCall.numlock
  /\ lastCall.vkCode = VK_UP
  /\ lastCall.wParam = WM_KEYDOWN
  /\ CallExtended /\ ~lastCall.passthrough
  /\ lastCall.ret = "call_next"

\* C4: Num Lock on: a non-injected, non-extended event of any table code or
\* VK_INSERT is nothing: no notification, event passed on.
NumLockOnNotIntercepted ==
  (Called /\ lastCall.numlock /\ ~CallInjected /\ ~CallExtended
     /\ lastCall.vkCode \in TableCodes)
  => (lastCall.ret = "call_next" /\ lastCall.emits = <<>>)

NumLockOnNotInterceptedWitness ==
  /\ Called /\ lastCall.numlock /\ ~CallInjected /\ ~CallExtended
  /\ lastCall.vkCode = VK_UP
  /\ lastCall.wParam = WM_KEYDOWN
  /\ ~lastCall.passthrough
  /\ lastCall.ret = "call_next"

\* C5: a Num Lock key-down publishes numlock_changed with the inverse of
\* the raw toggle state read in the callback: TRUE for raw FALSE, FALSE for
\* raw TRUE.
NumLockPublishedInverted ==
  (Called /\ IsDown(lastCall.wParam) /\ lastCall.vkCode = VK_NUMLOCK)
  => lastCall.emits = <<SigNumLock(IF lastCall.numlock THEN FALSE ELSE TRUE)>>

NumLockPublishedInvertedWitness ==
  /\ Called /\ lastCall.wParam = WM_KEYDOWN /\ lastCall.vkCode = VK_NUMLOCK
  /\ ~lastCall.numlock
  /\ lastCall.emits = <<SigNumLock(TRUE)>>

\* C6: a hook installation that failed during start() is reported to the
\* caller of start() as an error.
InstallFailureReported ==
  \A t \in Threads : installFailed[t] => startOutcome = "error"

\* C7: after a start() whose hook installation failed the service is
\* stopped: it does not count as running.
FailedStartLeavesStopped ==
  \A t \in Threads : (thread = t /\ installFailed[t]) => ~running

\* C8: start() called while the service is running changes nothing: no new
\* thread, no hook registration, no error.
StartWhileRunningIsNoOp ==
  [][(startSeq' # startSeq /\ running)
       => (UNCHANGED lifeState /\ startOutcome' = "None")]_vars

StartWhileRunningIsNoOpWitness ==
  /\ lastStartPre = "running"
  /\ running
  /\ thread # NoThread /\ tpc[thread] = "getmsg"

\* C9: stop() called when start() was never called, when start() failed or
\* when the service is already stopped returns normally and changes no state.
NeverStarted == thread = NoThread
StartFailed == thread # NoThread /\ installFailed[thread]
AlreadyStopped == ~running /\ thread # NoThread /\ tpc[thread] = "dead"

StopWhenNotRunningChangesNothing ==
  [][(stopSeq' # stopSeq /\ (NeverStarted \/ StartFailed \/ AlreadyStopped))
       => (UNCHANGED lifeState /\ stopOutcome' = "None")]_vars

\* C10: stop() returns to its caller, after waiting in one join for at most
\* JoinTimeout seconds, also when the hook thread is wedged.
StopReturnsInBoundedTime ==
  /\ [](joinElapsed <= JoinTimeout)
  /\ (mpc = "joining") ~> (mpc = "idle")

StopReturnsInBoundedTimeWitness ==
  /\ mpc = "idle"
  /\ stopOutcome = "None"
  /\ thread # NoThread /\ tpc[thread] = "wedged"
  /\ joinElapsed = JoinTimeout

\* the last stop() has returned and start() was not called since
StopReturned == mpc = "idle" /\ stopOutcome = "None" /\ ~running

\* C11: once stop() has returned, no keyboard hook registered by the service
\* remains installed and its timer is killed.
StopReleasesResources ==
  StopReturned => (osHooks = {} /\ osTimers = {})

\* the thread of the current session is in its message loop
InLoop(t) == tpc[t] \in {"check", "getmsg"}

\* C12: a start() after a stop() that returned gives a running session whose
\* hook and timer stay installed: nothing left over from the earlier session
\* removes them.
RestartKeepsHookAndTimer ==
  (running /\ thread # NoThread /\ InLoop(thread))
     => /\ \E h \in osHooks : Owner(h) = thread
        /\ \E tm \in osTimers : tm[1] = thread

\* C13: at most one capture session is active: at most one hook thread runs
\* the message loop and at most one hook registration is installed.
AtMostOneSession ==
  /\ Cardinality({t \in Threads : InLoop(t) \/ tpc[t] = "wedged"}) <= 1
  /\ Cardinality(osHooks) <= 1


PassthroughSuppressesNothing ==
  (lastCall.ret # "none" /\ lastCall.passthrough)
     => lastCall.ret = "call_next"

PassthroughSuppressesNothingWitness ==
  /\ Called /\ lastCall.passthrough
  /\ lastCall.wParam = WM_KEYUP
  /\ lastCall.vkCode = VK_UP
  /\ ~CallInjected /\ ~CallExtended /\ ~lastCall.numlock
  /\ lastCall.ret = "call_next"


\* a call is the key-down of a numpad navigation key the hook claims
PressDown(c) ==
  /\ c.ret # "none" /\ c.nCode >= 0
  /\ IsDown(c.wParam)
  /\ c.vkCode \in NavCodes
  /\ ~HasFlag(c.flags, LLKHF_INJECTED) /\ ~HasFlag(c.flags, LLKHF_EXTENDED)
  /\ ~c.numlock /\ ~c.passthrough

\* the pressed signal of a numpad navigation key
PressedOf(vk) == SigPressed(GridPos(NumpadDigit(vk)))

\* C16: with passthrough off, a key-down of a numpad navigation code (not
\* extended, not injected, Num Lock off) posts exactly one pressed signal
\* with the key's place in the 7,8,9 / 4,5,6 / 1,2,3 grid, a key-up posts
\* nothing, each posted pressed signal makes on_global_numpad run once with
\* that place, and every posted signal does reach its slot.
ButtonPressFiresOnce ==
  /\ [][IF delivered' = delivered
        THEN /\ PressDown(lastCall') =>
                  /\ queue' = Append(queue, PressedOf(lastCall'.vkCode))
                  /\ published' =
                       Append(published, PressedOf(lastCall'.vkCode))
             /\ IsUp(lastCall'.wParam) => UNCHANGED <<queue, published>>
             /\ UNCHANGED lastHandled
        ELSE /\ queue # <<>> /\ queue' = Tail(queue)
             /\ delivered' = Append(delivered, Head(queue))
             /\ Head(queue)[1] = "pressed" =>
                  lastHandled' =
                    <<"on_global_numpad", Head(queue)[2], Head(queue)[3]>>]_vars
  /\ \A k \in 1..MaxQueue :
       (Len(published) >= k) ~> (Len(delivered) >= k)

ButtonPressFiresOnceWitness ==
  /\ PressDown(lastCall)
  /\ lastCall.vkCode = VK_HOME
  /\ published = <<SigPressed(<<0, 0>>)>>
  /\ delivered = published
  /\ queue = <<>>
  /\ lastHandled = <<"on_global_numpad", 0, 0>>


\* a call is the key-down of numpad 0 (VK_INSERT) the hook claims
BackDown(c) ==
  /\ c.ret # "none" /\ c.nCode >= 0
  /\ IsDown(c.wParam)
  /\ c.vkCode = VK_INSERT
  /\ ~HasFlag(c.flags, LLKHF_INJECTED) /\ ~HasFlag(c.flags, LLKHF_EXTENDED)
  /\ ~c.numlock /\ ~c.passthrough

\* C17: with passthrough off, a key-down of VK_INSERT (not extended, not
\* injected, Num Lock off) makes the back-navigation handler fire once: its
\* back_pressed emission is posted to a slot.
BackNavigationFires ==
  BackDown(lastCall) =>
     (published # <<>> /\ published[Len(published)] = SigBack)


ChannelDropsOnOverflow == Len(queue) < MaxQueue


\* C20: the capture session follows the input mode: once apply_input_mode()
\* has been called the detector runs exactly when the mode is "shortcut",
\* and after cleanup() it does not run.
DetectorFollowsInputMode ==
  /\ (appPc = "up" /\ applyOutcome # "not_called")
        => (running <=> input_mode = "shortcut")
  /\ (appPc = "closed") => ~running


\* C21: the numlock_changed value published for a Num Lock key-down is the
\* Num Lock state the OS holds once that keystroke has completed, whatever
\* key events came before.
NumLockPublishedIsFinalState ==
  [][(/\ lastCall' # lastCall
      /\ lastCall'.nCode >= 0
      /\ IsDown(lastCall'.wParam)
      /\ lastCall'.vkCode = VK_NUMLOCK)
       => lastCall'.emits = <<SigNumLock(osNumLock')>>]_vars


\* C22: whenever at least one of the dialogs the application brackets with
\* set_numpad_passthrough(True) / (False) is open, passthrough is enabled,
\* in whatever order the dialogs are opened and closed.
PassthroughWhileDialogOpen == dialogs # <<>> => passthrough


\* C23: in shortcut mode, the slot handling numlock_changed(False) shows the
\* window exactly if Num Lock is still off when the slot runs: a stale OFF
\* notification handled after Num Lock went on again leaves a hidden window
\* hidden.
StaleOffNeverShows ==
  [][(/\ queue # <<>>
      /\ queue' = Tail(queue)
      /\ Head(queue) = SigNumLock(FALSE)
      /\ input_mode = "shortcut")
       => windowVisible' = (windowVisible \/ ~osNumLock)]_vars

StaleOffNeverShowsWitness ==
  /\ lastHandled = <<"_on_numlock_changed", FALSE>>
  /\ input_mode = "shortcut"
  /\ osNumLock
  /\ ~windowVisible


\* C26: while passthrough is enabled the hook emits no pressed and no
\* back_pressed notification, whatever the key event; numlock_changed is
\* still emitted.
PassthroughEmitsNoPress ==
  (lastCall.ret # "none" /\ lastCall.passthrough)
     => \A i \in DOMAIN lastCall.emits :
           lastCall.emits[i][1] = "numlock_changed"

PassthroughEmitsNoPressWitness ==
  /\ Called /\ lastCall.passthrough
  /\ lastCall.wParam = WM_KEYDOWN
  /\ lastCall.vkCode = VK_NUMLOCK
  /\ lastCall.emits = <<SigNumLock(TRUE)>>


\* C27: right after every timer tick the detector's last known Num Lock
\* state is the OS state read at the tick, and the tick emits
\* numlock_changed with the OS state exactly when the two differed before
\* the tick.
TickCorrectsNumLock ==
  [][(tick_count' # tick_count) =>
       /\ last_numlock_state' = {osNumLock}
       /\ queue' = IF last_numlock_state # {osNumLock}
                   THEN Append(queue, SigNumLock(osNumLock))
                   ELSE queue]_vars

TickCorrectsNumLockWitness ==
  /\ tpc[thread] = "check"
  /\ tick_count = 1
  /\ osNumLock
  /\ last_numlock_state = {TRUE}
  /\ queue = <<SigNumLock(TRUE)>>
  /\ lastHandled = <<>>


\* ---------------------------------------------------------------- C24
\* the children of folder f, as a set
ChildSet(tr, f) == {tr[f][i] : i \in 1..Len(tr[f])}

RECURSIVE Closure(_, _)
\* the folders reachable from the folders of S along `children`
Closure(tr, S) ==
  LET N == S \cup UNION {ChildSet(tr, f) : f \in S}
  IN  IF N = S THEN S ELSE Closure(tr, N)

\* the folders the tree holds, and a folder with all below it
FoldersOf(tr) == Closure(tr, {RootId})
SubtreeOf(tr, f) == Closure(tr, {f})

\* the moves C24 says are rejected: the folder is root, an id does not
\* exist, or the new parent is the folder or lies below it
MoveMustFail(tr, m) ==
  \/ m.folder_id = RootId
  \/ m.folder_id \notin FoldersOf(tr)
  \/ m.new_parent_id \notin FoldersOf(tr)
  \/ m.new_parent_id \in SubtreeOf(tr, m.folder_id)

\* C24: a move_folder call whose folder is root, whose folder or new parent
\* does not exist, or whose new parent is the folder itself or one of its
\* descendants returns False and leaves the folder tree as it was.
CycleMoveRejected ==
  [][(lastMove'.seq # lastMove.seq /\ MoveMustFail(tree, lastMove'))
       => (~lastMove'.result /\ tree' = tree)]_vars

\* a move of a folder under its grandchild has been rejected
CycleMoveRejectedWitness ==
  /\ lastMove # NoMove
  /\ ~lastMove.result
  /\ lastMove.folder_id \in FoldersOf(tree) \ {RootId}
  /\ lastMove.new_parent_id \in SubtreeOf(tree, lastMove.folder_id)
  /\ lastMove.new_parent_id \notin
       {lastMove.folder_id} \cup ChildSet(tree, lastMove.folder_id)


\* ---------------------------------------------------------------- C25
\* a step that records one of the recorder's control keys
ControlKeyStep(step) ==
  /\ step.type \in {"key_down", "key_up"}
  /\ (step.vk \in {_STOP_VK, _CANCEL_VK} \/ step.key \in {"f9", "esc"})

\* C25: the steps recording_stopped emits hold no key_down and no key_up
\* step for F9 or Escape, whatever keys were pressed and released while
\* the recording ran.
ControlKeysNeverRecorded ==
  \A i \in 1..Len(recLog) :
    recLog[i].sig = "recording_stopped" =>
      \A j \in 1..Len(recLog[i].steps) : ~ControlKeyStep(recLog[i].steps[j])

\* a recording with a key step was stopped after the release of F9 reached
\* the recorder while it was still running
ControlKeysNeverRecordedWitness ==
  /\ Len(recLog) = 1
  /\ recLog[1].sig = "recording_stopped"
  /\ \E j \in 1..Len(recLog[1].steps) : recLog[1].steps[j].type = "key_down"
  /\ lastKey = [type |-> "release", vk |-> _STOP_VK, running |-> TRUE]

\* ---------------------------------------------------------------- C28
\* C28: since the last start() at most one of recording_stopped and
\* recording_cancelled has been emitted, once; a stop() or cancel() on a
\* recorder that is not running, from F9, Escape or a button, changes
\* nothing of the recorder or its dialog.
RecordingEndsOnce ==
  [][/\ Len(recLog') <= 1
     /\ (~rec_running /\ ~rec_running') =>
          /\ UNCHANGED <<recLog, kb_listener, dlgResult>>
          /\ (kbPc' = kbPc => events' = events)]_vars

\* the recording was cancelled and the stop() F9 had queued ran afterwards
RecordingEndsOnceWitness ==
  /\ ~rec_running
  /\ Len(recLog) = 1
  /\ recLog[1].sig = "recording_cancelled"
  /\ lastEnd = "stop_noop"


\* ---------------------------------------------------------------- C29
\* the modifier names a hotkey string holds
NamesOf(hotkey) == {normal_part(hotkey[i]) : i \in 1..Len(hotkey)}

\* the flags C29 gives a hotkey string: each modifier name its own flag,
\* MOD_NOREPEAT always
ClaimedMods(hotkey) ==
  MOD_NOREPEAT
    + (IF NamesOf(hotkey) \cap {"ctrl", "control"} # {} THEN MOD_CONTROL ELSE 0)
    + (IF "shift" \in NamesOf(hotkey) THEN MOD_SHIFT ELSE 0)
    + (IF "alt" \in NamesOf(hotkey) THEN MOD_ALT ELSE 0)
    + (IF NamesOf(hotkey) \cap {"win", "windows"} # {} THEN MOD_WIN ELSE 0)

\* C29: the modifiers _parse_hotkey returns for a hotkey string are
\* MOD_NOREPEAT with MOD_CONTROL for "ctrl"/"control", MOD_SHIFT for "shift",
\* MOD_ALT for "alt" and MOD_WIN for "win"/"windows", and no other bit.
ParseMapsModifiers ==
  lastParse # NoParse => lastParse.mods = ClaimedMods(hk_hotkey)


\* ---------------------------------------------------------------- C30
\* C30: when switch_to_folder_id(B), called in folder A with fewer than 50
\* history entries for an existing folder B other than A, is followed by
\* navigate_back(), the current folder is A again and the folder history
\* is what it was before the switch.
BackUndoesSwitch ==
  [][(/\ lastNav.op = "switch"
      /\ lastNav'.op = "back"
      /\ lastNav.folder_id \in FoldersOf(tree)
      /\ lastNav.folder_id # lastNav.cur
      /\ Len(lastNav.hist) < HistoryCap)
       => (/\ current_folder_id' = lastNav.cur
           /\ folder_history' = lastNav.hist)]_vars

\* navigate_back has gone back to the folder a switch had left, with a
\* history that was not empty before the switch
BackUndoesSwitchWitness ==
  /\ lastNav.op = "back"
  /\ lastNav.cur # current_folder_id
  /\ folder_history # <<>>
  /\ lastNav.hist = Append(folder_history, current_folder_id)

====
